---------------------------- MODULE Spec2Model ----------------------------
(***************************************************************************)
(* PTL, the Python Template Language of Quixote (quixote/ptl/__init__.py). *)
(*                                                                         *)
(* Two state machines share this module.                                   *)
(*   SpecOps  applies the htmltext operations (htmlescape, +, %) to        *)
(*            operands drawn from a bounded pool of texts.                 *)
(*   Spec     runs concurrent invocations of one PTL template, statement   *)
(*            by statement, each appending to its output accumulator.      *)
(* Texts are TLA+ strings; a character is a string of length 1.            *)
(***************************************************************************)
EXTENDS Integers, Sequences, FiniteSets, TLC

VARIABLES
    \* ---- SpecOps: the htmltext calculator
    lhs,        \* first operand, as given
    rhs,        \* second operand, as given
    val,        \* the current value
    log,        \* the operations applied so far: [op, l, r, out]
    \* ---- Spec: template invocations
    tmpl,       \* name of the template being called
    code,       \* its body after the statement-capture transform
    calls,      \* per invocation: [args, env, stack, q_output, status, exc,
                \*                  result, trace]
    accs,       \* the accumulators allocated so far: ref -> sequence of fragments
    stdout      \* what print statements wrote

opsVars == <<lhs, rhs, val, log>>
ptlVars == <<tmpl, code, calls, accs, stdout>>
vars == <<lhs, rhs, val, log, tmpl, code, calls, accs, stdout>>

-----------------------------------------------------------------------------
(* Bounds *)

\* longest text enumerated over Alphabet for the operand pool
MaxLen == 1
\* number of operations applied in a row in SpecOps
MaxOps == 2
\* number of concurrent invocations of the template
NumCalls == 2

-----------------------------------------------------------------------------
(* Values *)

None == [t |-> "none", s |-> "", n |-> 0]
PyInt(k) == [t |-> "int", s |-> "", n |-> k]
Bool(b) == [t |-> "bool", s |-> "", n |-> IF b THEN 1 ELSE 0]
PyStr(s) == [t |-> "str", s |-> s, n |-> 0]
htmltext(s) == [t |-> "html", s |-> s, n |-> 0]
RangeVal(k) == [t |-> "range", s |-> "", n |-> k]
Error(name) == [t |-> "error", s |-> name, n |-> 0]
Unbound == [t |-> "unbound", s |-> "", n |-> 0]

IsText(v) == v.t \in {"str", "html"}
IsError(v) == v.t = "error"

Last(q) == q[Len(q)]

-----------------------------------------------------------------------------
(* str() *)

Digit(d) == SubSeq("0123456789", d + 1, d + 1)

RECURSIVE NatStr(_)
NatStr(k) == IF k < 10 THEN Digit(k) ELSE NatStr(k \div 10) \o Digit(k % 10)

IntStr(k) == IF k < 0 THEN "-" \o NatStr(0 - k) ELSE NatStr(k)

\* str(v): calling str() on an htmltext strips the htmltext type
Str(v) ==
    CASE v.t = "str" -> v.s
      [] v.t = "html" -> v.s
      [] v.t = "int" -> IntStr(v.n)
      [] v.t = "bool" -> IF v.n = 1 THEN "True" ELSE "False"
      [] v.t = "none" -> "None"
      [] OTHER -> "<" \o v.t \o ">"

-----------------------------------------------------------------------------
(* htmlescape *)

EscapeChar(c) ==
    CASE c = "&" -> "&amp;"
      [] c = "<" -> "&lt;"
      [] c = ">" -> "&gt;"
      [] c = "\"" -> "&quot;"
      [] OTHER -> c

\* every character of s replaced by what EscapeChar gives for it, in order
RECURSIVE EscapeString(_)
EscapeString(s) ==
    IF Len(s) <= 1 THEN EscapeChar(s)
    ELSE LET half == Len(s) \div 2
         IN  EscapeString(SubSeq(s, 1, half)) \o EscapeString(SubSeq(s, half + 1, Len(s)))

\* a plausible bug: the argument is escaped whatever its type
htmlescapeAlways(v) == htmltext(EscapeString(Str(v)))

\* htmlescape(v) always returns an htmltext; it does nothing to an htmltext
htmlescape(v) ==
    IF v.t = "html" THEN v ELSE htmltext(EscapeString(Str(v)))

-----------------------------------------------------------------------------
(* htmltext + str, str + htmltext *)

\* a plausible bug: both operands go through the escaping of their raw text
AddEscapesBoth(a, b) ==
    CASE a.t = "int" /\ b.t = "int" -> PyInt(a.n + b.n)
      [] a.t = "str" /\ b.t = "str" -> PyStr(a.s \o b.s)
      [] IsText(a) /\ IsText(b) ->
            htmltext(EscapeString(a.s) \o EscapeString(b.s))
      [] OTHER -> Error("TypeError")

Add(a, b) ==
    CASE a.t = "int" /\ b.t = "int" -> PyInt(a.n + b.n)
      [] a.t = "str" /\ b.t = "str" -> PyStr(a.s \o b.s)
      [] a.t = "html" /\ b.t = "html" -> htmltext(a.s \o b.s)
      [] a.t = "html" /\ b.t = "str" -> htmltext(a.s \o EscapeString(b.s))
      [] a.t = "str" /\ b.t = "html" -> htmltext(EscapeString(a.s) \o b.s)
      [] OTHER -> Error("TypeError")

-----------------------------------------------------------------------------
(* htmltext % args *)

\* a plausible bug: the argument is substituted as str() gives it
FormatArgUnescaped(a) == Str(a)

\* the text substituted for one %s of an htmltext template
FormatArg(a) == htmlescape(a).s

\* the position of the first % of s, 0 when it has none
FirstPercent(s) ==
    LET at == {j \in 1 .. Len(s) : SubSeq(s, j, j) = "%"}
    IN  IF at = {} THEN 0 ELSE CHOOSE j \in at : \A m \in at : j <= m

\* Substitutes args for the %s of s, left to right; %% is a literal %.
\* With esc (an htmltext template) each argument is escaped first. The
\* result is [ok, s]: not ok when the arguments and the placeholders do not
\* match or the conversion is not one of these two.
RECURSIVE Format(_, _, _)
Format(s, args, esc) ==
    LET p == FirstPercent(s)
        before == SubSeq(s, 1, p - 1)
        conv == SubSeq(s, p + 1, p + 1)
        after == SubSeq(s, p + 2, Len(s))
    IN  IF p = 0 THEN [ok |-> args = <<>>, s |-> s]
        ELSE IF conv = "%"
        THEN LET r == Format(after, args, esc)
             IN  [ok |-> r.ok, s |-> before \o "%" \o r.s]
        ELSE IF conv = "s" /\ args # <<>>
        THEN LET r == Format(after, Tail(args), esc)
                 a == IF esc THEN FormatArg(Head(args)) ELSE Str(Head(args))
             IN  [ok |-> r.ok, s |-> before \o a \o r.s]
        ELSE [ok |-> FALSE, s |-> ""]

\* a % b, b a single argument
Mod(a, b) ==
    IF ~IsText(a)
    THEN Error("TypeError")
    ELSE LET r == Format(a.s, <<b>>, a.t = "html")
         IN  IF ~r.ok THEN Error("TypeError")
             ELSE IF a.t = "html" THEN htmltext(r.s) ELSE PyStr(r.s)

-----------------------------------------------------------------------------
(* SpecOps: the operations applied to operands from a bounded pool *)

Alphabet == {"a", "&", "<", ">", "\""}

RECURSIVE Texts(_)
Texts(k) ==
    IF k = 0 THEN {""}
    ELSE LET shorter == Texts(k - 1)
         IN  shorter \cup {s \o c : s \in shorter, c \in Alphabet}

\* the texts of the documented examples
Examples ==
    {"<b>", "Hello %s", "a%s", "<i>%s</i> & more", "green eggs & ham", "&amp;"}

Pool == Texts(MaxLen) \cup Examples

Operands == {PyStr(s) : s \in Pool} \cup {htmltext(s) : s \in Pool}

Idle ==
    /\ tmpl = ""
    /\ code = <<>>
    /\ calls = <<>>
    /\ accs = <<>>
    /\ stdout = <<>>

InitOps ==
    /\ lhs \in Operands
    /\ rhs \in Operands
    /\ val = lhs
    /\ log = <<>>
    /\ Idle

CanApply == Len(log) < MaxOps /\ ~IsError(val)

Applied(op, l, r, out) ==
    /\ val' = out
    /\ log' = Append(log, [op |-> op, l |-> l, r |-> r, out |-> out])
    /\ UNCHANGED <<lhs, rhs>>
    /\ UNCHANGED ptlVars

\* val = htmlescape(val)
Escape ==
    /\ CanApply
    /\ Applied("htmlescape", val, None, htmlescape(val))

\* val = val + rhs
AddRight ==
    /\ CanApply
    /\ Applied("add", val, rhs, Add(val, rhs))

\* val = rhs + val
AddLeft ==
    /\ CanApply
    /\ Applied("add", rhs, val, Add(rhs, val))

\* val = val % rhs
Interpolate ==
    /\ CanApply
    /\ Applied("mod", val, rhs, Mod(val, rhs))

NextOps == Escape \/ AddRight \/ AddLeft \/ Interpolate

SpecOps == InitOps /\ [][NextOps]_vars

-----------------------------------------------------------------------------
(* Expressions *)

Lit(s) == [k |-> "lit", s |-> s]
HLit(s) == [k |-> "hlit", s |-> s]
Const(v) == [k |-> "const", v |-> v]
Var(name) == [k |-> "var", name |-> name]
BinOp(op, a, b) == [k |-> op, a |-> a, b |-> b]
CallFn(fn, a) == [k |-> "call", fn |-> fn, a |-> a]

BinOps == {"add", "mod", "eq"}

\* a == b: texts compare by their raw content
PyEq(a, b) == IF IsText(a) /\ IsText(b) THEN a.s = b.s ELSE a = b

Truthy(v) ==
    CASE IsText(v) -> v.s # ""
      [] v.t \in {"int", "bool", "range"} -> v.n # 0
      [] OTHER -> FALSE

Apply(fn, a) ==
    CASE fn = "range" -> IF a.t = "int" THEN RangeVal(a.n) ELSE Error("TypeError")
      [] fn = "htmltext" -> htmltext(Str(a))
      [] fn = "str" -> PyStr(Str(a))
      [] fn = "htmlescape" -> htmlescape(a)
      [] OTHER -> Error("NameError")

RECURSIVE Eval(_, _)
Eval(e, env) ==
    CASE e.k = "lit" -> PyStr(e.s)
      [] e.k = "hlit" -> htmltext(e.s)
      [] e.k = "const" -> e.v
      [] e.k = "var" ->
            IF env[e.name] = Unbound THEN Error("NameError") ELSE env[e.name]
      [] e.k \in BinOps ->
            LET a == Eval(e.a, env)
                b == Eval(e.b, env)
            IN  IF IsError(a) THEN a
                ELSE IF IsError(b) THEN b
                ELSE CASE e.k = "add" -> Add(a, b)
                       [] e.k = "mod" -> Mod(a, b)
                       [] OTHER -> Bool(PyEq(a, b))
      [] e.k = "call" ->
            LET a == Eval(e.a, env)
            IN  IF IsError(a) THEN a ELSE Apply(e.fn, a)
      [] OTHER -> Error("SyntaxError")

-----------------------------------------------------------------------------
(* Statements, and the statement-capture transform *)

ExprStmt(e) == [k |-> "expr", e |-> e]
Assign(name, e) == [k |-> "assign", name |-> name, e |-> e]
PrintStmt(es) == [k |-> "print", es |-> es]
If(c, th, el) == [k |-> "if", c |-> c, th |-> th, el |-> el]
For(name, it, body) == [k |-> "for", name |-> name, it |-> it, body |-> body]
Try(body, exc, handler) ==
    [k |-> "try", body |-> body, exc |-> exc, handler |-> handler]
Raise(exc, e) == [k |-> "raise", exc |-> exc, e |-> e]

\* In an [html] template every literal string becomes an htmltext.
RECURSIVE TransformExpr(_, _)
TransformExpr(e, mode) ==
    IF mode # "html" THEN e
    ELSE CASE e.k = "lit" -> HLit(e.s)
           [] e.k \in BinOps ->
                [e EXCEPT !.a = TransformExpr(e.a, mode),
                          !.b = TransformExpr(e.b, mode)]
           [] e.k = "call" -> [e EXCEPT !.a = TransformExpr(e.a, mode)]
           [] OTHER -> e

\* a plausible bug: the statement's literal strings stay str
OutputStmtStrLiterals(st, mode) == [k |-> "output", e |-> st.e]

\* A bare expression statement becomes an append to the accumulator.
OutputStmt(st, mode) == [k |-> "output", e |-> TransformExpr(st.e, mode)]

RECURSIVE TransformStmt(_, _)
TransformBody(b, mode) == [j \in DOMAIN b |-> TransformStmt(b[j], mode)]

TransformIf(st, mode) ==
    [st EXCEPT !.c = TransformExpr(st.c, mode),
               !.th = TransformBody(st.th, mode),
               !.el = TransformBody(st.el, mode)]

TransformStmt(st, mode) ==
    CASE st.k = "expr" -> OutputStmt(st, mode)
      [] st.k = "assign" -> [st EXCEPT !.e = TransformExpr(st.e, mode)]
      [] st.k = "print" ->
            [st EXCEPT !.es = [j \in DOMAIN st.es |-> TransformExpr(st.es[j], mode)]]
      [] st.k = "if" -> TransformIf(st, mode)
      [] st.k = "for" ->
            [st EXCEPT !.it = TransformExpr(st.it, mode),
                       !.body = TransformBody(st.body, mode)]
      [] st.k = "try" ->
            [st EXCEPT !.body = TransformBody(st.body, mode),
                       !.handler = TransformBody(st.handler, mode)]
      [] st.k = "raise" -> [st EXCEPT !.e = TransformExpr(st.e, mode)]
      [] OTHER -> st

\* A function with no [plain] or [html] after its name is not transformed.
Transform(t) ==
    IF t.mode \in {"plain", "html"} THEN TransformBody(t.body, t.mode) ELSE t.body

-----------------------------------------------------------------------------
(* The output accumulator *)

\* the fragment appended for a captured value
Capture(mode, v) == IF mode = "html" THEN htmlescape(v) ELSE PyStr(Str(v))

RECURSIVE JoinStr(_)
JoinStr(frags) ==
    IF frags = <<>> THEN "" ELSE Head(frags).s \o JoinStr(Tail(frags))

RECURSIVE JoinHtml(_, _)
JoinHtml(sofar, frags) ==
    IF frags = <<>> THEN sofar
    ELSE JoinHtml(Add(sofar, Head(frags)), Tail(frags))

\* a plausible bug: the fragments are joined with a space between them
getvalueSpaced(mode, out) ==
    CASE mode = "html" -> JoinHtml(htmltext(""), out)
      [] mode = "plain" ->
            PyStr(JoinStr([j \in DOMAIN out |->
                    IF j = 1 THEN out[j] ELSE PyStr(" " \o out[j].s)]))
      [] OTHER -> None

\* the template's return value
getvalue(mode, out) ==
    CASE mode = "html" -> JoinHtml(htmltext(""), out)
      [] mode = "plain" -> PyStr(JoinStr(out))
      [] OTHER -> None

-----------------------------------------------------------------------------
(* One invocation, as a frame                                              *)
(*   [mode, env, stack, out, status, exc, result, trace, printed]          *)
(* out is the content of the invocation's accumulator; trace records each  *)
(* statement executed with the value it evaluated; printed is what the     *)
(* step wrote to standard output.                                          *)

Names == {"x", "y", "z", "n", "i", "greeting", "language", "cond", "myfile"}

Pop(f, kind, v) ==
    [f EXCEPT !.stack = Tail(f.stack),
              !.trace = Append(f.trace, [k |-> kind, v |-> v]),
              !.printed = <<>>]

\* the stack from the handler of the innermost enclosing try that catches exc
RECURSIVE Unwind(_, _)
Unwind(stack, exc) ==
    IF stack = <<>> THEN [caught |-> FALSE, stack |-> <<>>]
    ELSE IF Head(stack).k = "endtry" /\ Head(stack).exc = exc
    THEN [caught |-> TRUE, stack |-> Head(stack).handler \o Tail(stack)]
    ELSE Unwind(Tail(stack), exc)

\* a plausible bug: the accumulator is emptied on the way to the handler
ThrowDiscardsOutput(f, exc) ==
    LET u == Unwind(f.stack, exc)
    IN  IF u.caught THEN [f EXCEPT !.stack = u.stack, !.out = <<>>]
        ELSE [f EXCEPT !.stack = <<>>, !.status = "raised", !.exc = exc]

\* exc is raised in f: control goes to the handler or out of the function
Throw(f, exc) ==
    LET u == Unwind(f.stack, exc)
    IN  IF u.caught THEN [f EXCEPT !.stack = u.stack]
        ELSE [f EXCEPT !.stack = <<>>, !.status = "raised", !.exc = exc]

\* a plausible bug: None is appended like any other value
ExecOutputKeepsNone(f) ==
    LET st == Head(f.stack)
        v == Eval(st.e, f.env)
        g == Pop(f, "expr", v)
    IN  IF IsError(v) THEN Throw(g, v.s)
        ELSE [g EXCEPT !.out = Append(f.out, Capture(f.mode, v))]

\* _q_output += expr
ExecOutput(f) ==
    LET st == Head(f.stack)
        v == Eval(st.e, f.env)
        g == Pop(f, "expr", v)
    IN  IF IsError(v) THEN Throw(g, v.s)
        ELSE IF v = None THEN g
        ELSE [g EXCEPT !.out = Append(f.out, Capture(f.mode, v))]

\* an expression statement of an ordinary function: evaluated and discarded
ExecDiscard(f) ==
    LET v == Eval(Head(f.stack).e, f.env)
        g == Pop(f, "discard", v)
    IN  IF IsError(v) THEN Throw(g, v.s) ELSE g

ExecAssign(f) ==
    LET st == Head(f.stack)
        v == Eval(st.e, f.env)
        g == Pop(f, "assign", v)
    IN  IF IsError(v) THEN Throw(g, v.s)
        ELSE [g EXCEPT !.env[st.name] = v]

RECURSIVE PrintLine(_, _)
PrintLine(es, env) ==
    IF es = <<>> THEN ""
    ELSE Str(Eval(Head(es), env))
            \o (IF Len(es) > 1 THEN " " ELSE "") \o PrintLine(Tail(es), env)

ExecPrint(f) ==
    LET st == Head(f.stack)
        bad == {j \in DOMAIN st.es : IsError(Eval(st.es[j], f.env))}
        g == Pop(f, "print", None)
    IN  IF bad # {}
        THEN Throw(g, Eval(st.es[CHOOSE j \in bad : \A m \in bad : j <= m], f.env).s)
        ELSE [g EXCEPT !.printed = <<PrintLine(st.es, f.env)>>]

\* a plausible bug: both branches run
ExecIfBoth(f) ==
    LET st == Head(f.stack)
        v == Eval(st.c, f.env)
        g == Pop(f, "if", v)
    IN  IF IsError(v) THEN Throw(g, v.s)
        ELSE [g EXCEPT !.stack = st.th \o st.el \o g.stack]

ExecIf(f) ==
    LET st == Head(f.stack)
        v == Eval(st.c, f.env)
        g == Pop(f, "if", v)
    IN  IF IsError(v) THEN Throw(g, v.s)
        ELSE [g EXCEPT !.stack = (IF Truthy(v) THEN st.th ELSE st.el) \o g.stack]

\* for name in range(...): the loop's first value is 0
ExecFor(f) ==
    LET st == Head(f.stack)
        v == Eval(st.it, f.env)
        g == Pop(f, "for", v)
    IN  IF IsError(v) THEN Throw(g, v.s)
        ELSE IF v.t # "range" THEN Throw(g, "TypeError")
        ELSE [g EXCEPT !.stack =
                <<[k |-> "loop", name |-> st.name, next |-> 0, stop |-> v.n,
                   body |-> st.body]>> \o g.stack]

ExecLoop(f) ==
    LET lp == Head(f.stack)
    IN  IF lp.next < lp.stop
        THEN [Pop(f, "loop", PyInt(lp.next)) EXCEPT
                !.env[lp.name] = PyInt(lp.next),
                !.stack = lp.body \o <<[lp EXCEPT !.next = lp.next + 1]>>
                            \o Tail(f.stack)]
        ELSE Pop(f, "loop", None)

ExecTry(f) ==
    LET st == Head(f.stack)
    IN  [Pop(f, "try", None) EXCEPT !.stack =
            st.body \o <<[k |-> "endtry", exc |-> st.exc, handler |-> st.handler]>>
                \o Tail(f.stack)]

\* the protected block ended without an exception
ExecEndTry(f) == Pop(f, "endtry", None)

ExecRaise(f) ==
    LET st == Head(f.stack)
        v == Eval(st.e, f.env)
    IN  IF IsError(v) THEN Throw(Pop(f, "raise", v), v.s)
        ELSE Throw(Pop(f, "raise", Error(st.exc)), st.exc)

\* the end of the body: return _q_output.getvalue()
ExecReturn(f) ==
    [f EXCEPT !.status = "returned", !.result = getvalue(f.mode, f.out),
              !.printed = <<>>]

\* one step of a running frame
Exec(f) ==
    IF f.stack = <<>> THEN ExecReturn(f)
    ELSE LET kind == Head(f.stack).k
         IN  CASE kind = "output" -> ExecOutput(f)
               [] kind = "expr" -> ExecDiscard(f)
               [] kind = "assign" -> ExecAssign(f)
               [] kind = "print" -> ExecPrint(f)
               [] kind = "if" -> ExecIf(f)
               [] kind = "for" -> ExecFor(f)
               [] kind = "loop" -> ExecLoop(f)
               [] kind = "try" -> ExecTry(f)
               [] kind = "endtry" -> ExecEndTry(f)
               [] kind = "raise" -> ExecRaise(f)

\* the frame of a call of template t with the arguments args
Enter(t, body, args) ==
    [mode |-> t.mode,
     env |-> [nm \in Names |->
                IF \E j \in DOMAIN t.params : t.params[j] = nm
                THEN args[CHOOSE j \in DOMAIN t.params : t.params[j] = nm]
                ELSE Unbound],
     stack |-> body, out |-> <<>>, status |-> "running", exc |-> "",
     result |-> None, trace |-> <<>>, printed |-> <<>>]

-----------------------------------------------------------------------------
(* The templates called *)

foo ==
    [mode |-> "plain", params |-> <<"x", "y">>, body |-> <<
        ExprStmt(Lit("This is a chunk of static text.")),
        Assign("greeting", Lit("hello world")),
        PrintStmt(<<Lit("Input values:"), Var("x"), Var("y")>>),
        Assign("z", BinOp("add", Var("x"), Var("y"))),
        ExprStmt(BinOp("mod",
            Lit("You can plug in variables like x (%s)\nin a variety of ways."),
            Var("x")))>>]

numbers ==
    [mode |-> "plain", params |-> <<"n">>, body |-> <<
        For("i", CallFn("range", Var("n")), <<
            ExprStmt(Var("i")),
            ExprStmt(Lit(" "))>>)>>]

international_hello ==
    [mode |-> "plain", params |-> <<"language">>, body |-> <<
        If(BinOp("eq", Var("language"), Lit("english")),
            <<ExprStmt(Lit("hello"))>>,
            <<If(BinOp("eq", Var("language"), Lit("french")),
                <<ExprStmt(Lit("bonjour"))>>,
                <<Raise("ValueError",
                    BinOp("mod", Lit("I don't speak %s"), Var("language")))>>)>>)>>]

\* myfile stands for what open("myfile.html").read() returns
output_file ==
    [mode |-> "html", params |-> <<"myfile">>, body |-> <<
        ExprStmt(Lit("<html><body>")),
        ExprStmt(CallFn("htmltext", Var("myfile"))),
        ExprStmt(Lit("</body></html>"))>>]

\* "a"; x; "b"
a_x_b ==
    [mode |-> "plain", params |-> <<"x">>, body |-> <<
        ExprStmt(Lit("a")), ExprStmt(Var("x")), ExprStmt(Lit("b"))>>]

\* a plain template whose only statement is the expression x
only_x ==
    [mode |-> "plain", params |-> <<"x">>, body |-> <<ExprStmt(Var("x"))>>]

\* an html template consisting of the literal '<b>'
literal_b ==
    [mode |-> "html", params |-> <<>>, body |-> <<ExprStmt(Lit("<b>"))>>]

\* an html template that captures the variable x, after a None and a literal
variable_x ==
    [mode |-> "html", params |-> <<"x">>, body |-> <<
        ExprStmt(Const(None)), ExprStmt(Lit("")), ExprStmt(Var("x"))>>]

\* if cond: "yes" else: "no"
yes_no ==
    [mode |-> "html", params |-> <<"cond">>, body |-> <<
        If(Var("cond"), <<ExprStmt(Lit("yes"))>>, <<ExprStmt(Lit("no"))>>)>>]

\* a template that raises inside a protected block after capturing
recover ==
    [mode |-> "plain", params |-> <<"x">>, body |-> <<
        ExprStmt(Lit("a")),
        Try(<<ExprStmt(Var("x")),
              If(BinOp("eq", Var("x"), Const(PyInt(1))),
                 <<Raise("ValueError", Const(None))>>,
                 <<If(BinOp("eq", Var("x"), Const(PyInt(2))),
                      <<Raise("KeyError", Const(None))>>, <<>>)>>),
              ExprStmt(Lit("b"))>>,
            "ValueError",
            <<ExprStmt(Lit("c"))>>),
        ExprStmt(Lit("d"))>>]

\* a function with no [plain] or [html]: its expressions are discarded
untagged ==
    [mode |-> "python", params |-> <<"x">>, body |-> <<
        ExprStmt(Lit("a docstring")), ExprStmt(Var("x"))>>]

TemplateNames ==
    {"foo", "numbers", "international_hello", "output_file", "a_x_b", "only_x",
     "literal_b", "variable_x", "yes_no", "recover", "untagged"}

Template(name) ==
    CASE name = "foo" -> foo
      [] name = "numbers" -> numbers
      [] name = "international_hello" -> international_hello
      [] name = "output_file" -> output_file
      [] name = "a_x_b" -> a_x_b
      [] name = "only_x" -> only_x
      [] name = "literal_b" -> literal_b
      [] name = "variable_x" -> variable_x
      [] name = "yes_no" -> yes_no
      [] name = "recover" -> recover
      [] name = "untagged" -> untagged

\* the argument lists each template is called with
Arguments(name) ==
    CASE name = "foo" -> <<<<PyInt(1), PyInt(2)>>, <<PyInt(12), PyInt(5)>>>>
      [] name = "numbers" -> <<<<PyInt(5)>>, <<PyInt(1)>>>>
      [] name = "international_hello" ->
            <<<<PyStr("english")>>, <<PyStr("french")>>, <<PyStr("german")>>>>
      [] name = "output_file" -> <<<<PyStr("<p>eggs & ham</p>")>>, <<PyStr("")>>>>
      [] name = "a_x_b" -> <<<<PyInt(1)>>, <<None>>, <<PyStr("")>>>>
      [] name = "only_x" -> <<<<None>>, <<PyInt(0)>>, <<PyStr("")>>, <<Bool(FALSE)>>>>
      [] name = "literal_b" -> <<<<>>>>
      [] name = "variable_x" ->
            <<<<PyStr("<b>")>>, <<htmltext("<b>")>>, <<PyInt(7)>>>>
      [] name = "yes_no" -> <<<<Bool(TRUE)>>, <<Bool(FALSE)>>>>
      [] name = "recover" -> <<<<PyInt(1)>>, <<PyInt(2)>>, <<PyInt(3)>>>>
      [] name = "untagged" -> <<<<PyStr("<b>")>>>>

-----------------------------------------------------------------------------
(* Spec: concurrent invocations of one template *)

Invocations == 1 .. NumCalls

IdleOps ==
    /\ lhs = None
    /\ rhs = None
    /\ val = None
    /\ log = <<>>

\* The invocations are interchangeable: their argument lists are drawn in
\* the order of Arguments, which leaves out only renamings of invocations.
Init ==
    /\ IdleOps
    /\ tmpl \in TemplateNames
    /\ code = Transform(Template(tmpl))
    /\ \E a \in [Invocations -> DOMAIN Arguments(tmpl)] :
        /\ \A i, j \in Invocations : i < j => a[i] <= a[j]
        /\ calls = [i \in Invocations |->
                        [args |-> Arguments(tmpl)[a[i]], mode |-> "",
                         env |-> [nm \in Names |-> Unbound],
                         stack |-> <<>>, q_output |-> 0, status |-> "ready",
                         exc |-> "", result |-> None, trace |-> <<>>]]
    /\ accs = <<>>
    /\ stdout = <<>>

\* a plausible bug: an accumulator that exists already is used again
SharedTemplateIO == IF accs = <<>> THEN Len(accs) + 1 ELSE Len(accs)

\* the reference of a newly created accumulator
NewTemplateIO == Len(accs) + 1

\* the frame of invocation i, its accumulator's content included
Frame(i) ==
    LET c == calls[i]
    IN  [mode |-> c.mode, env |-> c.env, stack |-> c.stack,
         out |-> accs[c.q_output], status |-> c.status, exc |-> c.exc,
         result |-> c.result, trace |-> c.trace, printed |-> <<>>]

\* invocation i goes from frame Frame(i) to frame g
Becomes(i, g) ==
    /\ calls' = [calls EXCEPT ![i] =
                    [args |-> calls[i].args, mode |-> g.mode, env |-> g.env,
                     stack |-> g.stack, q_output |-> calls[i].q_output,
                     status |-> g.status, exc |-> g.exc, result |-> g.result,
                     trace |-> g.trace]]
    /\ accs' = [accs EXCEPT ![calls[i].q_output] = g.out]
    /\ stdout' = stdout \o g.printed
    /\ UNCHANGED <<tmpl, code>>
    /\ UNCHANGED opsVars

At(i, kind) ==
    /\ calls[i].status = "running"
    /\ calls[i].stack # <<>>
    /\ Head(calls[i].stack).k = kind

\* the template is called: the invocation creates its accumulator
Call(i) ==
    /\ calls[i].status = "ready"
    /\ LET g == Enter(Template(tmpl), code, calls[i].args)
       IN  calls' = [calls EXCEPT ![i] =
                        [args |-> calls[i].args, mode |-> g.mode, env |-> g.env,
                         stack |-> g.stack, q_output |-> NewTemplateIO,
                         status |-> g.status, exc |-> g.exc, result |-> g.result,
                         trace |-> g.trace]]
    /\ accs' = Append(accs, <<>>)
    /\ UNCHANGED <<tmpl, code, stdout>>
    /\ UNCHANGED opsVars

Output(i) == At(i, "output") /\ Becomes(i, ExecOutput(Frame(i)))
Discard(i) == At(i, "expr") /\ Becomes(i, ExecDiscard(Frame(i)))
AssignTo(i) == At(i, "assign") /\ Becomes(i, ExecAssign(Frame(i)))
PrintOut(i) == At(i, "print") /\ Becomes(i, ExecPrint(Frame(i)))
Branch(i) == At(i, "if") /\ Becomes(i, ExecIf(Frame(i)))
EnterLoop(i) == At(i, "for") /\ Becomes(i, ExecFor(Frame(i)))
Iterate(i) == At(i, "loop") /\ Becomes(i, ExecLoop(Frame(i)))
EnterTry(i) == At(i, "try") /\ Becomes(i, ExecTry(Frame(i)))
LeaveTry(i) == At(i, "endtry") /\ Becomes(i, ExecEndTry(Frame(i)))
RaiseExc(i) == At(i, "raise") /\ Becomes(i, ExecRaise(Frame(i)))

Return(i) ==
    /\ calls[i].status = "running"
    /\ calls[i].stack = <<>>
    /\ Becomes(i, ExecReturn(Frame(i)))

Next ==
    \E i \in Invocations :
        \/ Call(i)
        \/ Output(i)
        \/ Discard(i)
        \/ AssignTo(i)
        \/ PrintOut(i)
        \/ Branch(i)
        \/ EnterLoop(i)
        \/ Iterate(i)
        \/ EnterTry(i)
        \/ LeaveTry(i)
        \/ RaiseExc(i)
        \/ Return(i)

Spec == Init /\ [][Next]_vars

-----------------------------------------------------------------------------
(* Properties of the htmltext operations, under SpecOps *)

Entries(op) == {j \in DOMAIN log : log[j].op = op}

\* C1: htmlescape is idempotent. It always returns an htmltext; applied to an
\* htmltext e it returns e itself, no character of e substituted again; and
\* htmlescape(htmlescape(v)) is htmlescape(v) for every plain text v.
EscapeIdempotent ==
    \A j \in Entries("htmlescape") :
        /\ log[j].out.t = "html"
        /\ log[j].l.t = "html" => log[j].out = log[j].l
        /\ (j > 1 /\ log[j - 1].op = "htmlescape") => log[j].out = log[j - 1].out

\* htmlescape was applied twice in a row to the plain text "&"
EscapedTwice ==
    /\ Len(log) = 2
    /\ lhs = PyStr("&")
    /\ log[1].op = "htmlescape" /\ log[2].op = "htmlescape"
    /\ val = htmltext("&amp;")

\* C2: a + b escapes only a plain operand. htmltext + str and str + htmltext
\* give the htmltext of the htmltext operand's raw content joined with the
\* escaped str; two htmltext operands are joined as they are; the
\* concatenation of two str is a str, never an htmltext.
ConcatEscapesOnlyPlain ==
    \A j \in Entries("add") :
        LET a == log[j].l
            b == log[j].r
            out == log[j].out
        IN  /\ (a.t = "html" /\ b.t = "str") =>
                    out = htmltext(a.s \o htmlescape(b).s)
            /\ (a.t = "str" /\ b.t = "html") =>
                    out = htmltext(htmlescape(a).s \o b.s)
            /\ (a.t = "html" /\ b.t = "html") => out = htmltext(a.s \o b.s)
            /\ (a.t = "str" /\ b.t = "str") => out = PyStr(a.s \o b.s)

\* an htmltext holding an entity was joined with a plain text to escape
ConcatenatedMixed ==
    \E j \in Entries("add") :
        /\ log[j].l = htmltext("&amp;")
        /\ log[j].r = PyStr("<")
        /\ log[j].out = htmltext("&amp;&lt;")

\* the htmltext templates of the pool: the text before and after their %s
FormatCases ==
    {[tpl |-> "Hello %s", pre |-> "Hello ", post |-> ""],
     [tpl |-> "a%s", pre |-> "a", post |-> ""],
     [tpl |-> "<i>%s</i> & more", pre |-> "<i>", post |-> "</i> & more"]}

\* C3: htmltext % arg escapes a plain argument before substituting it, and
\* leaves an htmltext argument and the template's own raw content as they
\* are; the result is an htmltext. htmltext("Hello %s") % "<b>" has the raw
\* content "Hello &lt;b&gt;".
FormatEscapesPlainArgs ==
    \A j \in Entries("mod") :
        LET a == log[j].l
            b == log[j].r
            out == log[j].out
        IN  /\ \A c \in FormatCases :
                (a = htmltext(c.tpl) /\ IsText(b)) =>
                    out = htmltext(c.pre
                            \o (IF b.t = "html" THEN b.s ELSE htmlescape(b).s)
                            \o c.post)
            /\ (a = htmltext("Hello %s") /\ b = PyStr("<b>")) =>
                    out = htmltext("Hello &lt;b&gt;")

\* htmltext("Hello %s") % "<b>" was computed
FormattedHello ==
    \E j \in Entries("mod") :
        /\ log[j].l = htmltext("Hello %s")
        /\ log[j].r = PyStr("<b>")
        /\ log[j].out = htmltext("Hello &lt;b&gt;")

-----------------------------------------------------------------------------
(* Properties of template invocations, under Spec *)

Started == {i \in DOMAIN calls : calls[i].status # "ready"}
Returned == {i \in DOMAIN calls : calls[i].status = "returned"}
Raised == {i \in DOMAIN calls : calls[i].status = "raised"}

Acc(i) == accs[calls[i].q_output]

Called(i, name, args) == tmpl = name /\ calls[i].args = args

IsCapture(e) == e.k = "expr" /\ ~IsError(e.v) /\ e.v # None

\* the values of the bare expression statements executed, None left out
Captured(i) == SelectSeq(calls[i].trace, IsCapture)

RECURSIVE ConcatStr(_)
ConcatStr(entries) ==
    IF entries = <<>> THEN ""
    ELSE Str(Head(entries).v) \o ConcatStr(Tail(entries))

\* C4: in an [html] template a literal string statement is captured as an
\* htmltext with its raw content unchanged, and an expression statement whose
\* value is a str is captured escaped: the template '<b>' returns the
\* htmltext "<b>", the template capturing x = "<b>" returns "&lt;b&gt;".
LiteralTrust ==
    /\ \A i \in Started :
        calls[i].mode = "html" =>
            /\ Len(Acc(i)) = Len(Captured(i))
            /\ \A j \in DOMAIN Acc(i) :
                LET v == Captured(i)[j].v
                IN  /\ Acc(i)[j].t = "html"
                    /\ v.t = "html" => Acc(i)[j] = v
                    /\ v.t = "str" => Acc(i)[j].s = EscapeString(v.s)
    /\ \A i \in Returned :
        /\ Called(i, "literal_b", <<>>) => calls[i].result = htmltext("<b>")
        /\ Called(i, "variable_x", <<PyStr("<b>")>>) =>
                calls[i].result = htmltext("&lt;b&gt;")
        /\ Called(i, "output_file", <<PyStr("<p>eggs & ham</p>")>>) =>
                calls[i].result =
                    htmltext("<html><body><p>eggs & ham</p></body></html>")

\* the template capturing the variable x = "<b>" has returned
VariableCaptured ==
    \E i \in Returned :
        /\ Called(i, "variable_x", <<PyStr("<b>")>>)
        /\ calls[i].result = htmltext("&lt;b&gt;")

\* C5: the result of a [plain] template is the concatenation, in execution
\* order, of str() of the values of the expression statements executed,
\* nothing added between them and nothing from assignments and prints.
\* "a"; x; "b" with x = 1 returns "a1b", and foo(1, 2) returns the documented
\* string.
PlainConcatenation ==
    \A i \in Returned :
        /\ calls[i].mode = "plain" =>
                calls[i].result = PyStr(ConcatStr(Captured(i)))
        /\ Called(i, "a_x_b", <<PyInt(1)>>) => calls[i].result = PyStr("a1b")
        /\ Called(i, "foo", <<PyInt(1), PyInt(2)>>) =>
                calls[i].result = PyStr("This is a chunk of static text.You can plug in variables like x (1)\nin a variety of ways.")

\* foo(1, 2) has returned, after its assignments and its print
FooReturned ==
    \E i \in Returned :
        /\ Called(i, "foo", <<PyInt(1), PyInt(2)>>)
        /\ \E j \in DOMAIN calls[i].trace : calls[i].trace[j].k = "print"
        /\ \E j \in DOMAIN calls[i].trace : calls[i].trace[j].k = "assign"
        /\ stdout # <<>>
        /\ Len(calls[i].result.s) > 0

\* C6: an expression statement whose value is None appends no fragment, in
\* either mode and at any position, and None is the only value ignored: the
\* accumulator holds one fragment per expression statement executed with
\* another value. A [plain] template whose only statement is None returns "".
NoneAddsNothing ==
    /\ \A i \in Started : Len(Acc(i)) = Len(Captured(i))
    /\ \A i \in Returned :
        Called(i, "only_x", <<None>>) =>
            Acc(i) = <<>> /\ calls[i].result = PyStr("")

\* "a"; x; "b" has run with x = None
NoneSkipped ==
    \E i \in Returned :
        /\ Called(i, "a_x_b", <<None>>)
        /\ Len(Acc(i)) = 2
        /\ Len(SelectSeq(calls[i].trace, LAMBDA e : e.k = "expr")) = 3

\* the literal fragments of the branch not taken, for the templates with an if
Untaken(i) ==
    CASE tmpl = "yes_no" ->
            IF Truthy(calls[i].args[1]) THEN {"no"} ELSE {"yes"}
      [] tmpl = "international_hello" ->
            {"hello", "bonjour"} \ {IF calls[i].args[1].s = "english" THEN "hello"
                                    ELSE IF calls[i].args[1].s = "french"
                                    THEN "bonjour" ELSE ""}
      [] OTHER -> {}

\* C7: of an if/elif/else only the statements of the branch that executes
\* are captured: no fragment of a branch not taken is ever in the
\* accumulator. if cond: "yes" else: "no" returns the htmltext "yes" for
\* cond = True and the htmltext "no" for cond = False.
BranchCapture ==
    /\ \A i \in Started :
        \A j \in DOMAIN Acc(i) : Acc(i)[j].s \notin Untaken(i)
    /\ \A i \in Returned :
        /\ Called(i, "yes_no", <<Bool(TRUE)>>) => calls[i].result = htmltext("yes")
        /\ Called(i, "yes_no", <<Bool(FALSE)>>) => calls[i].result = htmltext("no")
        /\ Called(i, "international_hello", <<PyStr("english")>>) =>
                calls[i].result = PyStr("hello")
        /\ Called(i, "international_hello", <<PyStr("french")>>) =>
                calls[i].result = PyStr("bonjour")

\* yes_no has returned from its else branch
ElseBranchTaken ==
    \E i \in Returned :
        /\ Called(i, "yes_no", <<Bool(FALSE)>>)
        /\ calls[i].result = htmltext("no")

\* C8: numbers(5) returns "1 2 3 4 5 ".
NumbersFromOne ==
    \A i \in Returned :
        Called(i, "numbers", <<PyInt(5)>>) => calls[i].result = PyStr("1 2 3 4 5 ")

RaisedIn(i) == SelectSeq(calls[i].trace, LAMBDA e : e.k = "raise")

\* C9: the fragments captured before an exception stay in the accumulator,
\* in order. When the handler catches it and the function returns, the result
\* holds the fragments captured before and after it; when nothing in the
\* function catches it, it leaves the function as it was raised.
ExceptionKeepsOutput ==
    /\ \A i \in Started :
        RaisedIn(i) # <<>> =>
            /\ Len(Acc(i)) = Len(Captured(i))
            /\ \A j \in DOMAIN Acc(i) :
                    Acc(i)[j] = Capture(calls[i].mode, Captured(i)[j].v)
    /\ \A i \in Raised :
        /\ RaisedIn(i) # <<>>
        /\ Last(RaisedIn(i)).v = Error(calls[i].exc)
        /\ calls[i].result = None
    /\ \A i \in Returned :
        Called(i, "recover", <<PyInt(1)>>) => calls[i].result = PyStr("a1cd")
    /\ \A i \in Raised :
        Called(i, "recover", <<PyInt(2)>>) =>
            /\ calls[i].exc = "KeyError"
            /\ Acc(i) = <<PyStr("a"), PyStr("2")>>

\* recover(1) has caught its exception and returned
Recovered ==
    \E i \in Returned :
        /\ Called(i, "recover", <<PyInt(1)>>)
        /\ RaisedIn(i) # <<>>
        /\ calls[i].result = PyStr("a1cd")

RECURSIVE Run(_)
Run(f) == IF f.status # "running" THEN f ELSE Run(Exec(f))

\* the invocation run on its own, from the call to its end
RunAlone(i) == Run(Enter(Template(tmpl), code, calls[i].args))

IsPrefix(p, q) == Len(p) <= Len(q) /\ SubSeq(q, 1, Len(p)) = p

\* C10: each invocation has its own accumulator. However the steps of the
\* invocations interleave, an invocation's accumulator holds only fragments
\* it would capture run on its own, in that order, and it ends as it would
\* on its own: with the same result, or with the same exception.
InvocationsIndependent ==
    /\ \A i, j \in Started : i # j => calls[i].q_output # calls[j].q_output
    /\ \A i \in Started :
        LET alone == RunAlone(i)
        IN  /\ IsPrefix(Acc(i), alone.out)
            /\ calls[i].status # "running" =>
                    /\ calls[i].status = alone.status
                    /\ calls[i].result = alone.result
                    /\ calls[i].exc = alone.exc
                    /\ Acc(i) = alone.out

\* two invocations with different arguments are both in the middle of their
\* bodies, each having captured something
Interleaved ==
    \E i, j \in Started :
        /\ i # j
        /\ calls[i].args # calls[j].args
        /\ calls[i].status = "running" /\ calls[j].status = "running"
        /\ calls[i].stack # <<>> /\ calls[j].stack # <<>>
        /\ Acc(i) # <<>> /\ Acc(j) # <<>>
        /\ Acc(i) # Acc(j)

=============================================================================
